---------------------------- MODULE Spec2Model ----------------------------
(***************************************************************************)
(* A model of the embedded-touch crate (src/src/lib.rs, src/src/traits.rs):*)
(* the fixed-point UnitAngle, the TouchPoint arithmetic and the Touch      *)
(* record.                                                                 *)
(*                                                                         *)
(* Numbers.  A fixed-point number with 15 fractional bits is kept as a     *)
(* record [i |-> integer part (floor), f |-> fraction bits in 0..2^15-1],  *)
(* its bit pattern being i * 2^15 + f; the 32-bit patterns of U17F15 and   *)
(* I17F15 do not all fit TLC's 32-bit integers, the two halves do.  The    *)
(* 16-bit pattern of the stored U1F15 is a plain integer in 0..65535.      *)
(*                                                                         *)
(* Build profile.  `checks` is TRUE for a build with debug assertions and  *)
(* overflow checks (cargo's dev and test profiles) and FALSE for a build   *)
(* without them (cargo's release profile).  fixed's to_fixed and the       *)
(* built-in i32 operators panic on overflow in the first and wrap in the   *)
(* second.                                                                 *)
(***************************************************************************)
EXTENDS Integers, Naturals, Sequences, FiniteSets, TLC

VARIABLES
    checks,   \* the build profile: TRUE = debug assertions / overflow checks on
    pc,       \* where the caller is: "idle", "built" (a UnitAngle constructor
              \* returned or panicked), "read" (an accessor returned)
    call,     \* the last UnitAngle constructor call: its name and argument
    angle,    \* what the constructor produced: [ok, bits], ok = FALSE for a panic
    out,      \* the last accessor's result on `angle`: its name and value
    acc,      \* the TouchPoint the point operators have produced so far
    orig,     \* the TouchPoint the chain of point operators started from
    hist,     \* the point operators applied so far, with their right operands
    touch,    \* the Touch the last Touch::new returned
    last      \* per touch id, the phase of the touch last built for it

vars == <<checks, pc, call, angle, out, acc, orig, hist, touch, last>>

\* the outcome of a call that can panic
Ok(v) == [ok |-> TRUE, v |-> v]
Panic == [ok |-> FALSE, v |-> 0]

----------------------------------------------------------------------------
(* Widths and constants of the fixed-point types                           *)

\* 2^15: one unit of the integer part, in bits of a 15-fractional-bit type
FRAC_ONE == 32768

\* 2^16: the number of bit patterns of U1F15
U1F15_MOD == 65536

\* 2^17: the number of integer values of U17F15 and of I17F15
WIDE_INT_MOD == 131072

\* U17F15!(3.14159265359): the nearest multiple of 2^-15, 102944 / 32768
PI_U17F15 == 102944

\* I17F15!(180) and U17F15!(180.0): 180 * 2^15
DEG180_BITS == 5898240

RECURSIVE Pow2(_)
Pow2(k) == IF k = 0 THEN 1 ELSE 2 * Pow2(k - 1)

\* An I15F17 or f32 argument has two fractional bits more than the 15 kept:
\* ARG_EXTRA units of 2^-17 make one unit of 2^-15.
ARG_EXTRA == Pow2(2)

\* The arguments: an i32 n, a U1F15 with bits n, an I15F17 with bits n
\* (value n / 2^17), or an f32 whose value is the dyadic n / 2^17.
Arg(ty, n) == [ty |-> ty, n |-> n]

\* n / d rounded to the nearest integer, ties to even (d even, d > 0)
RoundTiesEven(n, d) ==
    LET q == n \div d
        r == n % d
    IN  IF 2 * r < d THEN q
        ELSE IF 2 * r > d THEN q + 1
        ELSE IF q % 2 = 0 THEN q ELSE q + 1

\* The argument as a number with 15 fractional bits, before any range check:
\* integers and U1F15 are exact, a fixed-point source drops its extra
\* fractional bits (rounding towards minus infinity), a float source rounds to
\* the nearest with ties to even.
ToFrac15(arg) ==
    CASE arg.ty = "i32"    -> [i |-> arg.n, f |-> 0]
      [] arg.ty = "U1F15"  -> [i |-> arg.n \div FRAC_ONE, f |-> arg.n % FRAC_ONE]
      [] arg.ty = "I15F17" ->
            LET b == arg.n \div ARG_EXTRA
            IN  [i |-> b \div FRAC_ONE, f |-> b % FRAC_ONE]
      [] arg.ty = "f32"    ->
            LET b == RoundTiesEven(arg.n, ARG_EXTRA)
            IN  [i |-> b \div FRAC_ONE, f |-> b % FRAC_ONE]

\* mutant: the wrap keeps only the fraction, a value in [0, 1)
wrapping_to_U1F15_dropint(x) == x.f

\* value.wrapping_to_fixed::<U1F15>(): the low 16 bits of the bit pattern
wrapping_to_U1F15(x) == (x.i % 2) * FRAC_ONE + x.f

\* whether x fits U17F15 / I17F15
FitsU17F15(x) == x.i >= 0 /\ x.i < WIDE_INT_MOD
FitsI17F15(x) == x.i >= -(WIDE_INT_MOD \div 2) /\ x.i < WIDE_INT_MOD \div 2

\* value.to_fixed::<U17F15>(): panics on overflow with debug assertions,
\* returns the wrapped value without them
to_U17F15(x, dbg) ==
    IF FitsU17F15(x) THEN Ok(x)
    ELSE IF dbg THEN Panic
    ELSE Ok([i |-> x.i % WIDE_INT_MOD, f |-> x.f])

\* value.to_fixed::<I17F15>(): the same, signed
to_I17F15(x, dbg) ==
    IF FitsI17F15(x) THEN Ok(x)
    ELSE IF dbg THEN Panic
    ELSE Ok([i |-> ((x.i + WIDE_INT_MOD \div 2) % WIDE_INT_MOD) - WIDE_INT_MOD \div 2,
             f |-> x.f])

\* bit k of the 47-bit dividend (i * 2^15 + f) * 2^15, i >= 0
DividendBit(x, k) ==
    IF k < 15 THEN 0
    ELSE IF k < 30 THEN (x.f \div Pow2(k - 15)) % 2
    ELSE (x.i \div Pow2(k - 30)) % 2

\* schoolbook division of the widened dividend by d, one bit at a time
RECURSIVE LongDiv(_, _, _, _, _)
LongDiv(x, d, k, rem, q) ==
    IF k < 0 THEN q
    ELSE LET r2 == 2 * rem + DividendBit(x, k)
         IN  IF r2 >= d THEN LongDiv(x, d, k - 1, r2 - d, 2 * q + 1)
             ELSE LongDiv(x, d, k - 1, r2, 2 * q)

\* U17F15 / U17F15: ((a as u64) << 15) / (d as u64), truncated; the bits of
\* the quotient
U17F15_div(x, d) == LongDiv(x, d, 46, 0, 0)

\* the magnitude of a negative I17F15
Magnitude(x) ==
    IF x.f = 0 THEN [i |-> -x.i, f |-> 0]
    ELSE [i |-> -x.i - 1, f |-> FRAC_ONE - x.f]

\* I17F15 / I17F15: ((a as i64) << 15) / (d as i64), which Rust's integer
\* division truncates towards zero; the bits of the quotient
I17F15_div(x, d) ==
    IF x.i >= 0 THEN LongDiv(x, d, 46, 0, 0)
    ELSE -LongDiv(Magnitude(x), d, 46, 0, 0)

\* a 32-bit quotient wrapped into U1F15: both have 15 fractional bits
wrap_bits_to_U1F15(q) == q % U1F15_MOD

\* U17F15 * U17F15 for a left operand below 2^16: (a * b) >> 15, the product
\* taken in two halves of b
U17F15_mul(a, b) == a * (b \div FRAC_ONE) + (a * (b % FRAC_ONE)) \div FRAC_ONE

\* the number of significant bits of an f32
F32_MANTISSA == 24

\* the number of low bits a pattern below 2^31 loses when it becomes an f32
RECURSIVE LostBits(_, _)
LostBits(b, e) == IF b < Pow2(F32_MANTISSA + e) THEN e ELSE LostBits(b, e + 1)

\* fixed.to_num::<f32>(): the nearest f32, ties to even.  The result is kept
\* in units of 2^-15, like the bits it comes from; it is those bits whenever
\* they have at most 24 significant bits.
to_num_f32(b) == LET u == Pow2(LostBits(b, 0)) IN RoundTiesEven(b, u) * u

----------------------------------------------------------------------------
(* UnitAngle                                                               *)

\* mutant: the conversion saturates instead of wrapping
from_pi_radians_saturating(value) ==
    LET x == ToFrac15(value)
    IN  IF x.i < 0 THEN 0
        ELSE IF x.i >= 2 THEN U1F15_MOD - 1
        ELSE x.i * FRAC_ONE + x.f

\* UnitAngle::from_pi_radians: the stored U1F15 bits
from_pi_radians(value) == wrapping_to_U1F15(ToFrac15(value))

\* UnitAngle::from_radians: the stored bits, or a panic
from_radians(value, dbg) ==
    LET fixed_radians == to_U17F15(ToFrac15(value), dbg)
    IN  IF ~fixed_radians.ok THEN Panic
        ELSE LET pi_radians == U17F15_div(fixed_radians.v, PI_U17F15)
             IN  Ok(wrap_bits_to_U1F15(pi_radians))

\* UnitAngle::from_degrees: the stored bits, or a panic
from_degrees(value, dbg) ==
    LET fixed_degrees == to_I17F15(ToFrac15(value), dbg)
    IN  IF ~fixed_degrees.ok THEN Panic
        ELSE LET radians == I17F15_div(fixed_degrees.v, DEG180_BITS)
             IN  Ok(wrap_bits_to_U1F15(radians))

\* UnitAngle::as_pi_radians: the stored bits
as_pi_radians(self) == self

\* UnitAngle::as_radians_f32, in units of 2^-15
as_radians_f32(self) == to_num_f32(U17F15_mul(self, PI_U17F15))

\* mutant: the stored value taken as a fraction of a full turn
as_degrees_f32_turns(self) == to_num_f32(U17F15_mul(self, 2 * DEG180_BITS))

\* UnitAngle::as_degrees_f32, in units of 2^-15
as_degrees_f32(self) == to_num_f32(U17F15_mul(self, DEG180_BITS))

----------------------------------------------------------------------------
(* The arguments the constructors are called with                          *)

\* integer arguments run over -MaxInt..MaxInt, and over the edges of the
\* 17-bit integer range of the intermediate types
MaxInt == 1100

\* I15F17 and f32 arguments lie within MaxFine units of 2^-17 of an integer
\* of magnitude at most MaxWhole
MaxFine == 24
MaxWhole == 17

EdgeInts ==
    { WIDE_INT_MOD \div 2 - 1, WIDE_INT_MOD \div 2, -(WIDE_INT_MOD \div 2),
      -(WIDE_INT_MOD \div 2) - 1, WIDE_INT_MOD - 1, WIDE_INT_MOD }

IntArgs == { Arg("i32", n) : n \in (-MaxInt .. MaxInt) \cup EdgeInts }

FineArgs ==
    { Arg(ty, m * FRAC_ONE * ARG_EXTRA + j) :
        ty \in {"I15F17", "f32"}, m \in -MaxWhole .. MaxWhole,
        j \in -MaxFine .. MaxFine }

\* every U1F15: what from_pi_radians stores without loss
U1F15Args == { Arg("U1F15", n) : n \in 0 .. U1F15_MOD - 1 }

NoCall == [fn |-> "none", arg |-> Arg("i32", 0)]
NoOut == [fn |-> "none", v |-> 0]
NoPoint == Ok([x |-> 0, y |-> 0])
NoTouch == [id |-> 0, location |-> [x |-> 0, y |-> 0], phase |-> "none",
            tool |-> "none"]

\* the variables the UnitAngle operations leave alone
OtherThanAngle == <<checks, acc, orig, hist, touch, last>>

InitAngle ==
    /\ checks \in BOOLEAN
    /\ pc = "idle"
    /\ call = NoCall
    /\ angle = Panic
    /\ out = NoOut
    /\ acc = NoPoint /\ orig = NoPoint /\ hist = <<>>
    /\ touch = NoTouch /\ last = <<>>

\* the arguments each constructor is called with
PiArgs == IntArgs \cup FineArgs \cup U1F15Args
RadArgs == IntArgs \cup FineArgs
DegArgs == IntArgs \cup FineArgs

FromPiRadians ==
    /\ pc = "idle"
    /\ \E value \in PiArgs :
          /\ call' = [fn |-> "from_pi_radians", arg |-> value]
          /\ angle' = Ok(from_pi_radians(value))
    /\ pc' = "built"
    /\ UNCHANGED <<out, OtherThanAngle>>

FromRadians ==
    /\ pc = "idle"
    /\ \E value \in RadArgs :
          /\ call' = [fn |-> "from_radians", arg |-> value]
          /\ angle' = from_radians(value, checks)
    /\ pc' = "built"
    /\ UNCHANGED <<out, OtherThanAngle>>

FromDegrees ==
    /\ pc = "idle"
    /\ \E value \in DegArgs :
          /\ call' = [fn |-> "from_degrees", arg |-> value]
          /\ angle' = from_degrees(value, checks)
    /\ pc' = "built"
    /\ UNCHANGED <<out, OtherThanAngle>>

AsPiRadians ==
    /\ pc = "built" /\ angle.ok
    /\ out' = [fn |-> "as_pi_radians", v |-> as_pi_radians(angle.v)]
    /\ pc' = "read"
    /\ UNCHANGED <<call, angle, OtherThanAngle>>

AsRadiansF32 ==
    /\ pc = "built" /\ angle.ok
    /\ out' = [fn |-> "as_radians_f32", v |-> as_radians_f32(angle.v)]
    /\ pc' = "read"
    /\ UNCHANGED <<call, angle, OtherThanAngle>>

AsDegreesF32 ==
    /\ pc = "built" /\ angle.ok
    /\ out' = [fn |-> "as_degrees_f32", v |-> as_degrees_f32(angle.v)]
    /\ pc' = "read"
    /\ UNCHANGED <<call, angle, OtherThanAngle>>

NextAngle ==
    \/ FromPiRadians
    \/ FromRadians
    \/ FromDegrees
    \/ AsPiRadians
    \/ AsRadiansF32
    \/ AsDegreesF32

SpecAngle == InitAngle /\ [][NextAngle]_vars

----------------------------------------------------------------------------
(* TouchPoint                                                              *)

\* i32::MAX and i32::MIN
I32_MAX == 2147483647
I32_MIN == -I32_MAX - 1

\* a + b on i32: a panic on overflow with overflow checks, the two's
\* complement sum without them
add_i32(a, b, dbg) ==
    IF b > 0 /\ a > I32_MAX - b
    THEN IF dbg THEN Panic ELSE Ok((a - I32_MAX - 1) + (b - I32_MAX - 1))
    ELSE IF b < 0 /\ a < I32_MIN - b
    THEN IF dbg THEN Panic ELSE Ok((a + I32_MAX + 1) + (b + I32_MAX + 1))
    ELSE Ok(a + b)

\* mutant: the difference saturates at the ends of the range
sub_i32_saturating(a, b, dbg) ==
    IF b < 0 /\ a > I32_MAX + b THEN Ok(I32_MAX)
    ELSE IF b > 0 /\ a < I32_MIN + b THEN Ok(I32_MIN)
    ELSE Ok(a - b)

\* a - b on i32
sub_i32(a, b, dbg) ==
    IF b < 0 /\ a > I32_MAX + b
    THEN IF dbg THEN Panic ELSE Ok((a - I32_MAX - 1) - (b + I32_MAX + 1))
    ELSE IF b > 0 /\ a < I32_MIN + b
    THEN IF dbg THEN Panic ELSE Ok((a + I32_MAX + 1) - (b - I32_MAX - 1))
    ELSE Ok(a - b)

\* mutant: the negation saturates, -i32::MIN = i32::MAX
neg_i32_saturating(a, dbg) == IF a = I32_MIN THEN Ok(I32_MAX) ELSE Ok(-a)

\* -a on i32
neg_i32(a, dbg) ==
    IF a = I32_MIN THEN (IF dbg THEN Panic ELSE Ok(I32_MIN)) ELSE Ok(-a)

\* a struct literal { x: .., y: .. } whose fields are evaluated in order
PointOf(x, y) ==
    IF ~x.ok \/ ~y.ok THEN Panic ELSE Ok([x |-> x.v, y |-> y.v])

\* TouchPoint::new
TouchPoint_new(x, y) == [x |-> x, y |-> y]

\* impl Add for TouchPoint
add(self, rhs, dbg) ==
    PointOf(add_i32(self.x, rhs.x, dbg), add_i32(self.y, rhs.y, dbg))

\* impl AddAssign for TouchPoint: self as the call leaves it
add_assign(self, rhs, dbg) ==
    PointOf(add_i32(self.x, rhs.x, dbg), add_i32(self.y, rhs.y, dbg))

\* impl Sub for TouchPoint
sub(self, rhs, dbg) ==
    PointOf(sub_i32(self.x, rhs.x, dbg), sub_i32(self.y, rhs.y, dbg))

\* impl SubAssign for TouchPoint
sub_assign(self, rhs, dbg) ==
    PointOf(sub_i32(self.x, rhs.x, dbg), sub_i32(self.y, rhs.y, dbg))

\* impl Neg for TouchPoint
neg(self, dbg) == PointOf(neg_i32(self.x, dbg), neg_i32(self.y, dbg))

\* the longest chain of point operators
MaxOps == 2

\* a pixel coordinate of an ordinary screen
Pixel == 320

\* the components the points are made of: pixel offsets and the ends of i32
XS == {I32_MIN, -1, 1, Pixel, I32_MAX}
YS == {-Pixel, I32_MAX}
Points == { TouchPoint_new(x, y) : x \in XS, y \in YS }

\* the variables the TouchPoint operators leave alone
OtherThanPoint == <<checks, pc, call, angle, out, touch, last>>

InitPoint ==
    /\ checks \in BOOLEAN
    /\ pc = "point"
    /\ call = NoCall /\ angle = Panic /\ out = NoOut
    /\ orig \in Points
    /\ acc = Ok(orig)
    /\ hist = <<>>
    /\ touch = NoTouch /\ last = <<>>

\* whether the chain of point operators can go on
CanApply == pc = "point" /\ acc.ok /\ Len(hist) < MaxOps

Add ==
    /\ CanApply
    /\ \E rhs \in Points :
          /\ acc' = add(acc.v, rhs, checks)
          /\ hist' = Append(hist, [op |-> "add", rhs |-> rhs])
    /\ UNCHANGED <<orig, OtherThanPoint>>

AddAssign ==
    /\ CanApply
    /\ \E rhs \in Points :
          /\ acc' = add_assign(acc.v, rhs, checks)
          /\ hist' = Append(hist, [op |-> "add_assign", rhs |-> rhs])
    /\ UNCHANGED <<orig, OtherThanPoint>>

Sub ==
    /\ CanApply
    /\ \E rhs \in Points :
          /\ acc' = sub(acc.v, rhs, checks)
          /\ hist' = Append(hist, [op |-> "sub", rhs |-> rhs])
    /\ UNCHANGED <<orig, OtherThanPoint>>

SubAssign ==
    /\ CanApply
    /\ \E rhs \in Points :
          /\ acc' = sub_assign(acc.v, rhs, checks)
          /\ hist' = Append(hist, [op |-> "sub_assign", rhs |-> rhs])
    /\ UNCHANGED <<orig, OtherThanPoint>>

Neg ==
    /\ CanApply
    /\ acc' = neg(acc.v, checks)
    /\ hist' = Append(hist, [op |-> "neg", rhs |-> TouchPoint_new(0, 0)])
    /\ UNCHANGED <<orig, OtherThanPoint>>

NextPoint == Add \/ AddAssign \/ Sub \/ SubAssign \/ Neg

SpecPoint == InitPoint /\ [][NextPoint]_vars

----------------------------------------------------------------------------
(* Touch                                                                   *)

\* Option<T>: the empty sequence for None, <<v>> for Some(v)
NoneOpt == <<>>
Some(v) == <<v>>

\* touch ids run over 0..MaxId
MaxId == 1

\* a proximity and a pressure reading
Reading == 120

\* enum Phase
Phases ==
    { [tag |-> t, proximity |-> NoneOpt] :
        t \in {"Started", "Moved", "Ended", "Cancelled", "Hovering"} }
    \cup { [tag |-> "Hovering", proximity |-> Some(Reading)] }

\* enum Tool; a PointerButton is "None", "Primary", "Secondary" or "Tertiary"
ToolOf(tag, button, pressure, tilt, azimuth) ==
    [tag |-> tag, button |-> button, pressure |-> pressure, tilt |-> tilt,
     azimuth |-> azimuth]

Tools ==
    { ToolOf("Finger", "None", NoneOpt, NoneOpt, NoneOpt) }
    \cup { ToolOf("Pointer", b, NoneOpt, NoneOpt, NoneOpt) :
             b \in {"Primary"} }
    \cup { ToolOf("Stylus", "None", NoneOpt, NoneOpt, NoneOpt),
            ToolOf("Stylus", "None", Some(Reading),
                   Some(from_pi_radians(Arg("i32", 0))),
                   Some(from_pi_radians(Arg("i32", 1)))) }

\* mutant: the tool is not taken from the argument
Touch_new_finger(id, location, phase, tool) ==
    [id |-> id, location |-> location, phase |-> phase,
     tool |-> ToolOf("Finger", "None", NoneOpt, NoneOpt, NoneOpt)]

\* Touch::new
Touch_new(id, location, phase, tool) ==
    [id |-> id, location |-> location, phase |-> phase, tool |-> tool]

\* the variables Touch::new leaves alone
OtherThanTouch == <<checks, pc, angle, out, acc, orig, hist>>

InitTouch ==
    /\ checks \in BOOLEAN
    /\ pc = "touch"
    /\ call = NoCall /\ angle = Panic /\ out = NoOut
    /\ acc = NoPoint /\ orig = NoPoint /\ hist = <<>>
    /\ touch = NoTouch
    /\ last = [i \in 0 .. MaxId |-> "none"]

\* One call of Touch::new by a driver.  `last` is what the caller has built
\* before this call: per id, the phase of the latest earlier touch.
TouchNew ==
    /\ pc = "touch"
    /\ \E id \in 0 .. MaxId, phase \in Phases, tool \in Tools,
          location \in {TouchPoint_new(0, 0), TouchPoint_new(Pixel, -Pixel)} :
          /\ call' = [fn |-> "Touch::new", id |-> id, location |-> location,
                      phase |-> phase, tool |-> tool]
          /\ touch' = Touch_new(id, location, phase, tool)
    /\ last' = IF call.fn = "none" THEN last
               ELSE [last EXCEPT ![touch.id] = touch.phase.tag]
    /\ UNCHANGED OtherThanTouch

NextTouch == TouchNew

SpecTouch == InitTouch /\ [][NextTouch]_vars

----------------------------------------------------------------------------
(* The whole crate: a caller exercises one of its three parts              *)

Init == InitAngle \/ InitPoint \/ InitTouch

Next ==
    \/ FromPiRadians
    \/ FromRadians
    \/ FromDegrees
    \/ AsPiRadians
    \/ AsRadiansF32
    \/ AsDegreesF32
    \/ Add
    \/ AddAssign
    \/ Sub
    \/ SubAssign
    \/ Neg
    \/ TouchNew

Spec == Init /\ [][Next]_vars

----------------------------------------------------------------------------
(* Properties                                                              *)

\* the argument's value in units of 2^-17, for arguments small enough
Num17(arg) ==
    CASE arg.ty = "i32"   -> arg.n * FRAC_ONE * ARG_EXTRA
      [] arg.ty = "U1F15" -> arg.n * ARG_EXTRA
      [] OTHER            -> arg.n

\* whether the argument is an i32 within -MaxInt..MaxInt or not an i32
Small(arg) == arg.ty = "i32" => (arg.n >= -MaxInt /\ arg.n <= MaxInt)

\* the argument reduced into [0, period) whole units, in its own type
Reduced(arg, period) ==
    CASE arg.ty = "i32"   -> Arg("i32", arg.n % period)
      [] arg.ty = "U1F15" -> Arg("U1F15", arg.n % (period * FRAC_ONE))
      [] OTHER            -> Arg(arg.ty, arg.n % (period * FRAC_ONE * ARG_EXTRA))

\* C1: no UnitAngle constructor has a panic outcome, whatever the argument.
C1_ConstructionNeverFails == pc \in {"built", "read"} => angle.ok

\* A value kept in units of 2^-15, in units of 10^-5 rounded down.
Micro(v) == (v * 3125) \div 1024

\* The radian argument in units of 10^-5, rounded down.
RadMicro(arg) ==
    LET n == Num17(arg)
    IN  (n \div (FRAC_ONE * ARG_EXTRA)) * 100000
        + ((n % (FRAC_ONE * ARG_EXTRA)) * 3125) \div 4096

\* the full turns an argument of the model can hold
Turns == -(MaxInt \div 6) - 1 .. (MaxInt \div 6) + 1

\* Whether v (units of 2^-15) can be within 0.001 of r mod 2 pi, r being the
\* argument.  2 pi lies between 6.28318 and 6.28319, and every rounding of
\* this test is made in favour of "within".
WithinRadians(arg, v) ==
    \E k \in Turns :
        LET r   == RadMicro(arg)
            tlo == IF k >= 0 THEN r - 628319 * k ELSE r - 628318 * k
            thi == IF k >= 0 THEN r + 1 - 628318 * k ELSE r + 1 - 628319 * k
        IN  /\ thi >= 0
            /\ tlo < 628319
            /\ Micro(v) + 1 >= tlo - 100
            /\ Micro(v) <= thi + 100

\* C2: from_radians(r).as_radians_f32() exists and is within 0.001 of
\* r mod 2 pi, for every r, negative and of many turns included.
C2_RadiansRoundTrip ==
    /\ (pc = "built" /\ call.fn = "from_radians" /\ Small(call.arg)) => angle.ok
    /\ (pc = "read" /\ call.fn = "from_radians" /\ out.fn = "as_radians_f32"
        /\ Small(call.arg))
       => WithinRadians(call.arg, out.v)

\* C3: from_degrees(d) and from_degrees(d + 360 k) store the same value: the
\* angle stored for d is the one stored for d reduced into [0, 360).
C3_DegreesPeriodic ==
    (pc = "built" /\ call.fn = "from_degrees" /\ Small(call.arg))
    => angle = from_degrees(Reduced(call.arg, 360), checks)

\* d mod 360 in units of 2^-17
DegMod17(arg) == Num17(Reduced(arg, 360))

\* Whether v (units of 2^-15) is within 0.01 of d mod 360.
WithinDegrees(arg, v) ==
    LET diff == v * ARG_EXTRA - DegMod17(arg)
        tol  == (FRAC_ONE * ARG_EXTRA - 1) \div 100
    IN  diff <= tol /\ -diff <= tol

\* Whether v (units of 2^-15) can be within 0.001 of (d mod 360) pi / 180.
\* pi / 180 lies between 0.0174532 and 0.0174533, and every rounding of this
\* test is made in favour of "within".
WithinDegreesAsRadians(arg, v) ==
    LET whole == DegMod17(arg) \div (FRAC_ONE * ARG_EXTRA)
        part  == DegMod17(arg) % (FRAC_ONE * ARG_EXTRA)
        tlo   == (whole * 174532) \div 100 + (part * 1745) \div (FRAC_ONE * ARG_EXTRA)
        thi   == (whole * 174533) \div 100 + (part * 1746) \div (FRAC_ONE * ARG_EXTRA) + 2
    IN  Micro(v) + 1 >= tlo - 100 /\ Micro(v) <= thi + 100

\* C4: from_degrees(d).as_degrees_f32() exists and is within 0.01 of d mod 360,
\* and as_radians_f32() of the same angle within 0.001 of (d mod 360) pi / 180,
\* for every degree argument d.
C4_DegreesRoundTrip ==
    /\ (pc = "built" /\ call.fn = "from_degrees") => angle.ok
    /\ (pc = "read" /\ call.fn = "from_degrees" /\ Small(call.arg)
        /\ out.fn = "as_degrees_f32")
       => WithinDegrees(call.arg, out.v)
    /\ (pc = "read" /\ call.fn = "from_degrees" /\ Small(call.arg)
        /\ out.fn = "as_radians_f32")
       => WithinDegreesAsRadians(call.arg, out.v)

\* C5: from_pi_radians wraps modulo 2: the value stored for v + 2 k is the one
\* stored for v in [0, 2), and an odd integer stores exactly 1.0, which
\* as_pi_radians returns.
C5_PiRadiansWrap ==
    /\ (pc \in {"built", "read"} /\ call.fn = "from_pi_radians")
       => /\ angle.ok
          /\ angle.v = from_pi_radians(Reduced(call.arg, 2))
          /\ (call.arg.ty = "i32" /\ call.arg.n % 2 = 1) => angle.v = FRAC_ONE
    /\ (pc = "read" /\ call.fn = "from_pi_radians" /\ out.fn = "as_pi_radians"
        /\ call.arg.ty = "i32" /\ call.arg.n % 2 = 1)
       => out.v = FRAC_ONE

\* C5 witness: the test's k = -8: from_pi_radians(1 - 16) read back as 1.0
C5_Witness ==
    /\ pc = "read" /\ call.fn = "from_pi_radians" /\ out.fn = "as_pi_radians"
    /\ call.arg = Arg("i32", -15)
    /\ out.v = FRAC_ONE

\* whether the argument is a value of [0, 2) with at most 15 fractional bits
Canonical(arg) ==
    CASE arg.ty = "i32"   -> arg.n \in {0, 1}
      [] arg.ty = "U1F15" -> TRUE
      [] OTHER            -> /\ arg.n >= 0
                             /\ arg.n < 2 * FRAC_ONE * ARG_EXTRA
                             /\ arg.n % ARG_EXTRA = 0

\* C6: for v in [0, 2) representable in U1F15,
\* from_pi_radians(v).as_pi_radians() is v exactly.
C6_Lossless ==
    (pc = "read" /\ call.fn = "from_pi_radians" /\ out.fn = "as_pi_radians"
     /\ Canonical(call.arg))
    => out.v * ARG_EXTRA = Num17(call.arg)

\* C6 witness: the largest U1F15, and a float with a fraction, read back
C6_Witness ==
    /\ pc = "read" /\ call.fn = "from_pi_radians" /\ out.fn = "as_pi_radians"
    /\ \/ call.arg = Arg("U1F15", U1F15_MOD - 1) /\ out.v = U1F15_MOD - 1
       \/ call.arg = Arg("f32", (FRAC_ONE + 2) * ARG_EXTRA) /\ out.v = FRAC_ONE + 2

\* floor(2 pi 2^15): the largest bit pattern whose value is below 2 pi
TWO_PI_FLOOR == 205887

\* C10: every accessor's result is in range: as_pi_radians in [0, 2),
\* as_degrees_f32 in [0, 360), as_radians_f32 in [0, 2 pi); and the products
\* fit the 17 integer bits of U17F15.
C10_OutputRange ==
    pc = "read" =>
       /\ angle.ok /\ angle.v \in 0 .. U1F15_MOD - 1
       /\ out.v >= 0
       /\ out.fn = "as_pi_radians" => out.v < 2 * FRAC_ONE
       /\ out.fn = "as_degrees_f32" =>
             /\ out.v < 360 * FRAC_ONE
             /\ U17F15_mul(angle.v, DEG180_BITS) \div FRAC_ONE < WIDE_INT_MOD
       /\ out.fn = "as_radians_f32" =>
             /\ out.v <= TWO_PI_FLOOR
             /\ U17F15_mul(angle.v, PI_U17F15) \div FRAC_ONE < WIDE_INT_MOD

\* C10 witness: the largest stored value read in degrees, just below 360
C10_Witness ==
    /\ pc = "read" /\ out.fn = "as_degrees_f32"
    /\ angle.v = U1F15_MOD - 1
    /\ out.v = (U1F15_MOD - 1) * 180

\* the 16-bit halves of the 32-bit sum a + b + c, before the upper half wraps
HalfSum(a, b, c) ==
    LET lo == (a % U1F15_MOD) + (b % U1F15_MOD) + c
    IN  [lo |-> lo % U1F15_MOD,
         hi |-> (a \div U1F15_MOD) + (b \div U1F15_MOD) + (lo \div U1F15_MOD)]

\* whether the sum of those halves is an i32
HalfFits(h) == h.hi >= -(U1F15_MOD \div 2) /\ h.hi < U1F15_MOD \div 2

\* the sum of those halves modulo 2^32, as an i32
HalfWrap(h) ==
    (((h.hi + (U1F15_MOD \div 2)) % U1F15_MOD) - (U1F15_MOD \div 2)) * U1F15_MOD
    + h.lo

\* a op b in 32-bit two's complement, by halves: a - b is a + ~b + 1
Halves(op, a, b) ==
    CASE op \in {"add", "add_assign"} -> HalfSum(a, b, 0)
      [] op \in {"sub", "sub_assign"} -> HalfSum(a, -1 - b, 1)
      [] op = "neg"                   -> HalfSum(0, -1 - a, 1)

\* whether both components of the first operator's result are in i32
FirstFits ==
    /\ HalfFits(Halves(hist[1].op, orig.x, hist[1].rhs.x))
    /\ HalfFits(Halves(hist[1].op, orig.y, hist[1].rhs.y))

\* the first operator's result with both components taken modulo 2^32
FirstWrapped ==
    [x |-> HalfWrap(Halves(hist[1].op, orig.x, hist[1].rhs.x)),
     y |-> HalfWrap(Halves(hist[1].op, orig.y, hist[1].rhs.y))]

\* the chain is a + b followed by - b
IsAddThenSub ==
    /\ pc = "point" /\ Len(hist) = 2
    /\ hist[1].op = "add" /\ hist[2].op = "sub"
    /\ hist[1].rhs = hist[2].rhs

C9_TouchNewStateless ==
    (pc = "touch" /\ call.fn = "Touch::new")
    => /\ touch.id = call.id
       /\ touch.location = call.location
       /\ touch.phase = call.phase
       /\ touch.tool = call.tool

\* C9 witness: a Started touch is built for an id whose previous touch was
\* Started or Moved, so had reached neither Ended nor Cancelled
C9_Witness ==
    /\ pc = "touch" /\ call.fn = "Touch::new"
    /\ touch.phase.tag = "Started"
    /\ last[touch.id] \in {"Started", "Moved"}
    /\ touch.tool.tag = "Stylus"

=============================================================================
